---------------------------- MODULE Spec2Model ----------------------------
(***************************************************************************)
(* A model of fuzzy-ls (ffs): the Damerau-Levenshtein scorer of            *)
(* src/search.rs, the fuzzy branch of main (src/main.rs: score, sort,      *)
(* adaptive threshold, early-exit walk) and the interactive browser        *)
(* display_results_ui of src/gui.rs with the terminal modes it sets.       *)
(*                                                                         *)
(* A Rust String is modelled as the sequence of its chars (Unicode scalar  *)
(* values, as integers); String::len() is the number of bytes of its       *)
(* UTF-8 encoding, chars().nth(k) is the k-th char or None.                *)
(***************************************************************************)
EXTENDS Integers, Sequences, FiniteSets

(***************************************************************************)
(* Bounds of the model.                                                    *)
(***************************************************************************)
\* Longest string (in chars) given to the scorer when it is checked alone.
MaxLen == 3
\* Most files the directory walk yields in the model of main.
MaxFiles == 3

(***************************************************************************)
(* Strings.                                                                *)
(***************************************************************************)
\* 'a', 'b' (one byte each in UTF-8) and U+00E9 (two bytes).
Alphabet == {97, 98, 233}

\* Option<char>::None, the result of chars().nth(k) past the last char.
NoChar == -1

\* char::len_utf8: the number of bytes of the UTF-8 encoding of c.
Utf8Len(c) ==
    IF c < 128 THEN 1 ELSE IF c < 2048 THEN 2 ELSE IF c < 65536 THEN 3 ELSE 4

\* String::len(): the length of s in bytes.
RECURSIVE ByteLen(_)
ByteLen(s) == IF s = <<>> THEN 0 ELSE Utf8Len(Head(s)) + ByteLen(Tail(s))

\* s.chars().nth(k): the k-th char (from 0), None when there is none.
CharsNth(s, k) == IF k >= 0 /\ k < Len(s) THEN s[k + 1] ELSE NoChar

\* std::cmp::min
Min(x, y) == IF x <= y THEN x ELSE y

\* All strings of at most n chars over the alphabet.
StringsUpTo(n) == UNION {[1..k -> Alphabet] : k \in 0..n}

\* The strings of the regression test of search.rs and of the spec's
\* end-to-end example.
Irks == <<105, 114, 107, 115>>
Risk == <<114, 105, 115, 107>>
Geeks == <<103, 101, 101, 107, 115>>
Forgeeks == <<102, 111, 114, 103, 101, 101, 107, 115>>
Mian == <<109, 105, 97, 110>>
Main == <<109, 97, 105, 110>>
Maintenance == <<109, 97, 105, 110, 116, 101, 110, 97, 110, 99, 101>>
Domain == <<100, 111, 109, 97, 105, 110>>

(***************************************************************************)
(* search.rs: the scorer.                                                  *)
(***************************************************************************)
\* enum FuzzySearchAlgorithm
Algorithms == {"LEVENSHTEIN", "DamerauLevenshtein", "BITAP", "JaroWinkler"}

\* The table after lines 95-101: all 0, then column 0 and row 0.
InitTable(n, m) ==
    [i \in 0..n |-> [j \in 0..m |-> IF j = 0 THEN i ELSE IF i = 0 THEN j ELSE 0]]

\* The transposition test of lines 110-113.
Transposed(query, file_name, i, j) ==
    /\ i > 1
    /\ j > 1
    /\ CharsNth(query, i - 1) = CharsNth(file_name, j - 2)
    /\ CharsNth(query, i - 2) = CharsNth(file_name, j - 1)

\* The mismatch arm with the deletion neighbour dp[i-1][j] left out.
MismatchCostNoDelete(dp, i, j) == 1 + Min(dp[i][j - 1], dp[i - 1][j - 1])

\* The mismatch arm of lines 107-108.
MismatchCost(dp, i, j) ==
    1 + Min(dp[i - 1][j], Min(dp[i][j - 1], dp[i - 1][j - 1]))

\* The loop body with the chars of query indexed from 1 instead of 0.
CellValueOffByOne(dp, query, file_name, i, j) ==
    LET first == IF CharsNth(query, i) = CharsNth(file_name, j - 1)
                 THEN dp[i - 1][j - 1]
                 ELSE MismatchCost(dp, i, j)
    IN  IF Transposed(query, file_name, i, j)
        THEN Min(first, dp[i - 2][j - 2] + 1)
        ELSE first

\* The value the loop body (lines 104-116) leaves in dp[i][j].
CellValue(dp, query, file_name, i, j) ==
    LET first == IF CharsNth(query, i - 1) = CharsNth(file_name, j - 1)
                 THEN dp[i - 1][j - 1]
                 ELSE MismatchCost(dp, i, j)
    IN  IF Transposed(query, file_name, i, j)
        THEN Min(first, dp[i - 2][j - 2] + 1)
        ELSE first

\* The inner loop `for j in 1..=m` (line 103) of row i, from column j on.
RECURSIVE FillRow(_, _, _, _, _, _)
FillRow(dp, query, file_name, m, i, j) ==
    IF j > m THEN dp
    ELSE LET v == CellValue(dp, query, file_name, i, j)
         IN  FillRow([dp EXCEPT ![i][j] = v], query, file_name, m, i, j + 1)

\* The outer loop `for i in 1..=n` (line 102), from row i on. The inner
\* loop writes row i only, so the table after it is dp with row i replaced.
RECURSIVE FillTable(_, _, _, _, _, _)
FillTable(dp, query, file_name, n, m, i) ==
    IF i > n THEN dp
    ELSE LET row == FillRow(dp, query, file_name, m, i, 1)[i]
         IN  FillTable([dp EXCEPT ![i] = row], query, file_name, n, m, i + 1)

\* fn damerau_levenshtein_distance: n and m are String::len(), in bytes.
damerau_levenshtein_distance(query, file_name) ==
    LET n == ByteLen(query)
        m == ByteLen(file_name)
    IN  FillTable(InitTable(n, m), query, file_name, n, m, 1)[n][m]

\* Result<u32, String>: Ok(v) and Err(e). The message "<scorer> Algorithm
\* not implemented" is modelled by the scorer it names.
Ok(v) == [ok |-> TRUE, val |-> v, err |-> ""]
Err(e) == [ok |-> FALSE, val |-> 0, err |-> e]

\* score_fuzzy_search with a wildcard arm that scores instead of failing.
score_fuzzy_search_all(query, file_name, scorer) ==
    Ok(damerau_levenshtein_distance(query, file_name))

\* fn score_fuzzy_search
score_fuzzy_search(query, file_name, scorer) ==
    IF scorer = "DamerauLevenshtein"
    THEN Ok(damerau_levenshtein_distance(query, file_name))
    ELSE Err(scorer)

(***************************************************************************)
(* main.rs: the adaptive threshold, computed in f32.                       *)
(***************************************************************************)
\* An f32 value is modelled exactly, as a numerator over 2^25.
F32Scale == 33554432
\* The f32 literals 0.25, 0.35 and 0.45 (their nearest f32, times 2^25).
F32Quarter == 8388608
F32ThirtyFive == 11744051
F32FortyFive == 15099494
\* 2^24: an f32 holds 24 significant bits.
F32Significand == 16777216

\* The power of two an exact product p is rounded to a multiple of, so that
\* 24 significant bits remain.
RECURSIVE F32Unit(_, _)
F32Unit(p, unit) ==
    IF p < F32Significand * unit THEN unit ELSE F32Unit(p, 2 * unit)

\* The f32 nearest to the exact value p / 2^25 (round half to even).
F32Round(p) ==
    LET unit == F32Unit(p, 1)
        q == p \div unit
        r == p % unit
        up == 2 * r > unit \/ (2 * r = unit /\ q % 2 = 1)
    IN  (IF up THEN q + 1 ELSE q) * unit

\* f32::ceil followed by `as u32`, of a value p / 2^25 >= 0.
F32CeilU32(p) == (p + F32Scale - 1) \div F32Scale

\* A threshold that is never below 1.
ThresholdFloorOne(len) ==
    IF len = 0 THEN 1
    ELSE IF len <= 4 THEN F32CeilU32(F32Round(len * F32Quarter))
    ELSE IF len <= 10 THEN F32CeilU32(F32Round(len * F32ThirtyFive))
    ELSE F32CeilU32(F32Round(len * F32FortyFive))

\* The match of lines 213-217 on len = args.query.len().
Threshold(len) ==
    IF len <= 4 THEN F32CeilU32(F32Round(len * F32Quarter))
    ELSE IF len <= 10 THEN F32CeilU32(F32Round(len * F32ThirtyFive))
    ELSE F32CeilU32(F32Round(len * F32FortyFive))

\* The argument of the match: args.query.len(), the query's length in bytes.
QueryLen(q) == ByteLen(q)

(***************************************************************************)
(* main.rs: the sort of line 212.                                          *)
(***************************************************************************)
\* Insertion that puts e before the entries of equal score (not stable).
RECURSIVE InsertBeforeEqual(_, _)
InsertBeforeEqual(sorted, e) ==
    IF sorted = <<>> THEN <<e>>
    ELSE IF Head(sorted).score < e.score
         THEN <<Head(sorted)>> \o InsertBeforeEqual(Tail(sorted), e)
         ELSE <<e>> \o sorted

\* e put after every entry whose score is <= its own: the place a stable
\* sort gives the last element of the input.
RECURSIVE InsertStable(_, _)
InsertStable(sorted, e) ==
    IF sorted = <<>> THEN <<e>>
    ELSE IF Head(sorted).score <= e.score
         THEN <<Head(sorted)>> \o InsertStable(Tail(sorted), e)
         ELSE <<e>> \o sorted

\* The sort left out.
SortByScoreNone(v) == v

\* ranked_files.sort_by(|a, b| a.0.cmp(&b.0)): slice::sort_by is stable.
RECURSIVE SortByScore(_)
SortByScore(v) ==
    IF v = <<>> THEN <<>>
    ELSE InsertStable(SortByScore(SubSeq(v, 1, Len(v) - 1)), v[Len(v)])

(***************************************************************************)
(* State.                                                                  *)
(***************************************************************************)
VARIABLES
    \* main, fuzzy branch
    pc,              \* where main is
    query,           \* args.query
    files,           \* what walk_directory returned: (file_name, full_path)
    scorer,          \* the FuzzySearchAlgorithm passed to score_fuzzy_search
    k,               \* how many elements the running for loop has consumed
    ranked_files,    \* Vec<(u32, String, String)>
    threshold,       \* the adaptive threshold (0 before line 213)
    potential_hits,  \* Vec<(u32, String, String)>
    main_ret,        \* what main returned: "running", Ok or Err
    \* the scorer called alone
    fn_name,         \* the file_name argument
    fn_ret,          \* what score_fuzzy_search returned
    \* gui.rs: display_results_ui(potential_hits, default_editor_command)
    ui_pc,           \* where display_results_ui is
    selected_index,  \* the selection cursor
    raw_mode,        \* the terminal is in raw mode
    alt_screen,      \* the terminal shows the alternate screen
    mouse_capture,   \* mouse capture is enabled
    cursor_hidden,   \* the cursor is hidden
    launched,        \* the paths handed to open_in_new_terminal, in order
    ui_ret,          \* "running", "ok" (Ok(())), "err" (Err), "panic"
    \* main.rs lines 226-252 and editor.rs: the numbered list and its prompt
    open_in_editor,  \* cfg!(feature = "open_in_editor")
    file_number,     \* main's counter, passed to experimental_open_files
    input,           \* the line read_line stored
    printed,         \* the lines written to stdout, in order
    \* search.rs: walk_directory
    entries,         \* the file names WalkDir yields, directories left out
    exclude_extension_set,
    focus_extension_set,
    \* the terminal's input, as display_results_ui of gui.rs sees it
    queue,           \* the events waiting to be read, oldest first
    iteration,       \* how many times the flush of line 115 has returned
    shown            \* the selected_index the last frame highlighted

mainVars == <<pc, query, files, scorer, k, ranked_files, threshold,
              potential_hits, main_ret>>
fnVars == <<fn_name, fn_ret>>
termVars == <<raw_mode, alt_screen, mouse_capture, cursor_hidden>>
guiVars == <<ui_pc, selected_index, termVars, launched, ui_ret>>
edVars == <<open_in_editor, file_number, input, printed>>
walkVars == <<entries, exclude_extension_set, focus_extension_set>>
inVars == <<queue, iteration, shown>>
vars == <<mainVars, fnVars, guiVars, edVars, walkVars, inVars>>

\* The value of main_ret and fn_ret while the call has not returned.
Running == [ok |-> FALSE, val |-> 0, err |-> "running"]

\* display_results_ui of gui.rs is not running (no caller in the crate
\* reaches it from main: main.rs declares no `mod gui`).
GuiIdle ==
    /\ ui_pc = "idle"
    /\ selected_index = 0
    /\ raw_mode = FALSE
    /\ alt_screen = FALSE
    /\ mouse_capture = FALSE
    /\ cursor_hidden = FALSE
    /\ launched = <<>>
    /\ ui_ret = "running"

\* The numbered list of main.rs lines 226-252 has not been reached.
EdIdle ==
    /\ open_in_editor = FALSE
    /\ file_number = 0
    /\ input = <<>>
    /\ printed = <<>>

\* walk_directory is not running.
WalkIdle ==
    /\ entries = <<>>
    /\ exclude_extension_set = {}
    /\ focus_extension_set = {}

\* The value of shown while no frame has been drawn.
NoFrame == -1

\* display_results_ui of gui.rs is not reading the terminal's input.
InIdle ==
    /\ queue = <<>>
    /\ iteration = 0
    /\ shown = NoFrame

(***************************************************************************)
(* The inputs of main.                                                     *)
(***************************************************************************)
\* Queries: empty, the spec's "mian", one with two-byte chars (3 chars, 5
\* bytes), and queries of 7 and 12 chars.
Mainten == SubSeq(Maintenance, 1, 7)
Maintenances == Maintenance \o <<115>>
RankQueries == {<<>>, Mian, <<233, 233, 97>>, Mainten, Maintenances}

\* File names (extension stripped) the walk may yield.
RankNames == {<<>>, Main, Mian, Maintenance, Domain, <<233, 97>>}

\* walk_directory's result: at most MaxFiles files; the full path of a file
\* is modelled by its place in the enumeration (paths are distinct).
FileLists ==
    UNION {{[i \in 1..n |-> [name |-> f[i], path |-> i]] : f \in [1..n -> RankNames]}
           : n \in 0..MaxFiles}

(***************************************************************************)
(* main.rs, lines 201-253: the fuzzy branch.                               *)
(***************************************************************************)
\* One iteration of `for (file_name, full_path) in files` (lines 202-211).
ScoreCandidate ==
    /\ pc = "score"
    /\ k < Len(files)
    /\ LET f == files[k + 1]
           r == score_fuzzy_search(query, f.name, scorer)
       IN  IF r.ok
           THEN /\ ranked_files' = Append(ranked_files,
                       [score |-> r.val, name |-> f.name, path |-> f.path])
                /\ k' = k + 1
                /\ UNCHANGED <<pc, main_ret>>
           ELSE /\ pc' = "returned"
                /\ main_ret' = Err(r.err)
                /\ UNCHANGED <<ranked_files, k>>
    /\ UNCHANGED <<query, files, scorer, threshold, potential_hits, fnVars,
                   guiVars, edVars, walkVars, inVars>>

\* The loop is exhausted: the sort of line 212 and the threshold of 213-217.
SortAndThreshold ==
    /\ pc = "score"
    /\ k = Len(files)
    /\ ranked_files' = SortByScore(ranked_files)
    /\ threshold' = Threshold(QueryLen(query))
    /\ pc' = "filter"
    /\ k' = 0
    /\ UNCHANGED <<query, files, scorer, potential_hits, main_ret, fnVars,
                   guiVars, edVars, walkVars, inVars>>

\* `score <= threshold` of line 219, with < in its place.
KeepsStrict(score, limit) == score < limit

\* `score <= threshold` of line 219.
Keeps(score, limit) == score <= limit

\* Whether the walk of lines 218-224 is over once n entries are consumed:
\* the vector is exhausted, or the next entry takes the break of line 222.
WalkEnds(v, n, limit) ==
    IF n = Len(v) THEN TRUE ELSE ~Keeps(v[n + 1].score, limit)

\* One iteration of `for (score, file_name, full_path) in ranked_files`
\* that does not break (lines 218-224).
KeepCandidate ==
    /\ pc = "filter"
    /\ ~WalkEnds(ranked_files, k, threshold)
    /\ potential_hits' =
           IF Keeps(ranked_files[k + 1].score, threshold)
           THEN Append(potential_hits, ranked_files[k + 1])
           ELSE potential_hits
    /\ k' = k + 1
    /\ UNCHANGED <<pc, query, files, scorer, ranked_files, threshold,
                   main_ret, fnVars, guiVars, edVars, walkVars, inVars>>

\* The walk ends: by the break of line 222 or at the end of the vector.
EndWalk ==
    /\ pc = "filter"
    /\ WalkEnds(ranked_files, k, threshold)
    /\ pc' = "display"
    /\ UNCHANGED <<query, files, scorer, k, ranked_files, threshold,
                   potential_hits, main_ret, fnVars, guiVars, edVars, walkVars,
                   inVars>>

\* Line 253: main hands potential_hits to display_results_ui.
StartBrowser ==
    /\ pc = "display"
    /\ pc' = "ui"
    /\ UNCHANGED <<query, files, scorer, k, ranked_files, threshold,
                   potential_hits, main_ret, fnVars, guiVars, edVars, walkVars,
                   inVars>>

MainNext == ScoreCandidate \/ SortAndThreshold \/ KeepCandidate \/ EndWalk
            \/ StartBrowser

\* main as the program runs it: line 206 passes DamerauLevenshtein.
MainInit ==
    /\ pc = "score"
    /\ query \in RankQueries
    /\ files \in FileLists
    /\ scorer = "DamerauLevenshtein"
    /\ k = 0
    /\ ranked_files = <<>>
    /\ threshold = 0
    /\ potential_hits = <<>>
    /\ main_ret = Running
    /\ fn_name = <<>>
    /\ fn_ret = Running
    /\ GuiIdle
    /\ EdIdle
    /\ WalkIdle
    /\ InIdle

\* The fuzzy branch with the algorithm tag of line 206 as a parameter: the
\* call site is given each variant of the enum, so that the Err arm of
\* line 209 is taken.
ScorerInit ==
    /\ pc = "score"
    /\ query \in RankQueries
    /\ files \in FileLists
    /\ scorer \in Algorithms
    /\ k = 0
    /\ ranked_files = <<>>
    /\ threshold = 0
    /\ potential_hits = <<>>
    /\ main_ret = Running
    /\ fn_name = <<>>
    /\ fn_ret = Running
    /\ GuiIdle
    /\ EdIdle
    /\ WalkIdle
    /\ InIdle

(***************************************************************************)
(* search.rs: score_fuzzy_search called alone, on every pair of strings    *)
(* of at most MaxLen chars and on the pairs of the regression test.        *)
(***************************************************************************)
FnFixtures == {<<Irks, Risk>>, <<Risk, Irks>>, <<Geeks, Forgeeks>>,
               <<Forgeeks, Geeks>>}
FnInputs == (StringsUpTo(MaxLen) \X StringsUpTo(MaxLen)) \cup FnFixtures

FnInit ==
    /\ pc = "fn"
    /\ \E in \in FnInputs : query = in[1] /\ fn_name = in[2]
    /\ scorer \in Algorithms
    /\ fn_ret = Running
    /\ files = <<>>
    /\ k = 0
    /\ ranked_files = <<>>
    /\ threshold = 0
    /\ potential_hits = <<>>
    /\ main_ret = Running
    /\ GuiIdle
    /\ EdIdle
    /\ WalkIdle
    /\ InIdle

\* The call score_fuzzy_search(query, file_name, scorer) and its return.
CallScore ==
    /\ pc = "fn"
    /\ fn_ret' = score_fuzzy_search(query, fn_name, scorer)
    /\ pc' = "fn_done"
    /\ UNCHANGED <<query, files, scorer, k, ranked_files, threshold,
                   potential_hits, main_ret, fn_name, guiVars, edVars, walkVars,
                   inVars>>

(***************************************************************************)
(* gui.rs: display_results_ui, the navigable browser.                      *)
(***************************************************************************)
\* Most entries of the list the browser is given.
MaxHits == 3

\* The lists the browser is given: n entries, entry i with path i.
HitLists ==
    {[i \in 1..n |-> [score |-> i - 1, name |-> <<97>>, path |-> i]]
     : n \in 0..MaxHits}

\* What event::read() may return: key events by their KeyCode ("x" is any
\* other key), and "Resize", an event that is not a key event.
Events == {"q", "Esc", "Down", "j", "Up", "k", "Enter", "x", "Resize"}

\* let num_results = potential_hits.len() (line 37)
num_results == Len(potential_hits)

\* The terminal and the rest of the browser's state are left as they are.
UiKeeps == UNCHANGED <<selected_index, termVars, launched>>

\* Leaving display_results_ui by `?` or by a panic: `terminal` is dropped,
\* and its Drop tries to show the cursor again, which may fail; nothing else
\* of the terminal is touched.
Leave(how) ==
    /\ ui_pc' = "returned"
    /\ ui_ret' = how
    /\ cursor_hidden' \in (IF cursor_hidden THEN BOOLEAN ELSE {FALSE})
    /\ UNCHANGED <<selected_index, raw_mode, alt_screen, mouse_capture,
                   launched>>

\* A step that succeeds and goes on at `next`, or fails and is left by `?`.
OkOrFail(next) ==
    \/ /\ ui_pc' = next
       /\ UNCHANGED ui_ret
       /\ UiKeeps
    \/ Leave("err")

\* enable_raw_mode()? (line 30); on failure the mode is not changed.
EnableRawMode ==
    /\ ui_pc = "enable_raw_mode"
    /\ \/ /\ raw_mode' = TRUE
          /\ ui_pc' = "enter_screen"
          /\ UNCHANGED <<selected_index, alt_screen, mouse_capture,
                         cursor_hidden, launched, ui_ret>>
       \/ Leave("err")
    /\ UNCHANGED <<mainVars, fnVars, edVars, walkVars>>

\* execute!(stdout, EnterAlternateScreen, EnableMouseCapture)? (line 32).
\* On failure any prefix of the two commands may have reached the terminal.
EnterScreen ==
    /\ ui_pc = "enter_screen"
    /\ \/ /\ alt_screen' = TRUE
          /\ mouse_capture' = TRUE
          /\ ui_pc' = "new_terminal"
          /\ UNCHANGED <<selected_index, raw_mode, cursor_hidden, launched,
                         ui_ret>>
       \/ /\ alt_screen' \in BOOLEAN
          /\ mouse_capture' = FALSE
          /\ ui_pc' = "returned"
          /\ ui_ret' = "err"
          /\ UNCHANGED <<selected_index, raw_mode, cursor_hidden, launched>>
    /\ UNCHANGED <<mainVars, fnVars, edVars, walkVars>>

\* Terminal::new(backend)? (line 34), then selected_index = 0 (line 36).
NewTerminal ==
    /\ ui_pc = "new_terminal"
    /\ \/ /\ ui_pc' = "first_flush"
          /\ selected_index' = 0
          /\ UNCHANGED <<termVars, launched, ui_ret>>
       \/ /\ ui_pc' = "returned"
          /\ ui_ret' = "err"
          /\ UiKeeps
    /\ UNCHANGED <<mainVars, fnVars, edVars, walkVars>>

\* flush_input_events()? before the loop (line 40).
FirstFlush ==
    /\ ui_pc = "first_flush"
    /\ OkOrFail("draw")
    /\ UNCHANGED <<mainVars, fnVars, edVars, walkVars>>

\* terminal.draw(..)? (lines 43-111): the frame sets no cursor position, so
\* the draw hides the cursor.
Draw ==
    /\ ui_pc = "draw"
    /\ \/ /\ cursor_hidden' = TRUE
          /\ ui_pc' = "flush_before_read"
          /\ UNCHANGED <<selected_index, raw_mode, alt_screen, mouse_capture,
                         launched, ui_ret>>
       \/ Leave("err")
    /\ UNCHANGED <<mainVars, fnVars, edVars, walkVars>>

\* flush_input_events()? and the sleep after the draw (lines 115-116).
FlushBeforeRead ==
    /\ ui_pc = "flush_before_read"
    /\ OkOrFail("read")
    /\ UNCHANGED <<mainVars, fnVars, edVars, walkVars>>

\* event::read()? fails (line 119). When it succeeds, the event ev it
\* returns is dispatched by one of the five actions that follow.
ReadFails ==
    /\ ui_pc = "read"
    /\ Leave("err")
    /\ UNCHANGED <<mainVars, fnVars, edVars, walkVars>>

\* A quit key that is ignored: the loop goes on.
KeyQuitContinues(ev) ==
    /\ ui_pc = "read"
    /\ ev \in {"q", "Esc"}
    /\ ui_pc' = "flush_after_read"
    /\ UNCHANGED ui_ret
    /\ UiKeeps
    /\ UNCHANGED <<mainVars, fnVars, edVars, walkVars>>

\* KeyCode::Char('q') | KeyCode::Esc => break (line 121).
KeyQuit(ev) ==
    /\ ui_pc = "read"
    /\ ev \in {"q", "Esc"}
    /\ ui_pc' = "disable_raw_mode"
    /\ UNCHANGED ui_ret
    /\ UiKeeps
    /\ UNCHANGED <<mainVars, fnVars, edVars, walkVars>>

\* A down key without the test of line 123.
KeyDownUnclamped(ev) ==
    /\ ui_pc = "read"
    /\ ev \in {"Down", "j"}
    /\ selected_index' = selected_index + 1
    /\ ui_pc' = "flush_after_read"
    /\ UNCHANGED <<termVars, launched, ui_ret>>
    /\ UNCHANGED <<mainVars, fnVars, edVars, walkVars>>

\* KeyCode::Down | KeyCode::Char('j') (lines 122-126).
KeyDown(ev) ==
    /\ ui_pc = "read"
    /\ ev \in {"Down", "j"}
    /\ selected_index' = IF selected_index + 1 < num_results
                         THEN selected_index + 1
                         ELSE selected_index
    /\ ui_pc' = "flush_after_read"
    /\ UNCHANGED <<termVars, launched, ui_ret>>
    /\ UNCHANGED <<mainVars, fnVars, edVars, walkVars>>

\* An up key that wraps around from the first entry to the last.
KeyUpWraps(ev) ==
    /\ ui_pc = "read"
    /\ ev \in {"Up", "k"}
    /\ selected_index' = IF selected_index > 0
                         THEN selected_index - 1
                         ELSE num_results - 1
    /\ ui_pc' = "flush_after_read"
    /\ UNCHANGED <<termVars, launched, ui_ret>>
    /\ UNCHANGED <<mainVars, fnVars, edVars, walkVars>>

\* KeyCode::Up | KeyCode::Char('k') (lines 127-131).
KeyUp(ev) ==
    /\ ui_pc = "read"
    /\ ev \in {"Up", "k"}
    /\ selected_index' = IF selected_index > 0
                         THEN selected_index - 1
                         ELSE selected_index
    /\ ui_pc' = "flush_after_read"
    /\ UNCHANGED <<termVars, launched, ui_ret>>
    /\ UNCHANGED <<mainVars, fnVars, edVars, walkVars>>

\* An Enter key that opens the first entry whatever the selection is.
KeyEnterFirst(ev) ==
    /\ ui_pc = "read"
    /\ ev = "Enter"
    /\ IF num_results > 0
       THEN /\ launched' = Append(launched, potential_hits[1].path)
            /\ \/ /\ ui_pc' = "disable_raw_mode"
                  /\ UNCHANGED <<selected_index, termVars, ui_ret>>
               \/ /\ ui_pc' = "returned"
                  /\ ui_ret' = "panic"
                  /\ cursor_hidden' \in (IF cursor_hidden THEN BOOLEAN ELSE {FALSE})
                  /\ UNCHANGED <<selected_index, raw_mode, alt_screen,
                                 mouse_capture>>
       ELSE /\ ui_pc' = "flush_after_read"
            /\ UNCHANGED ui_ret
            /\ UiKeeps
    /\ UNCHANGED <<mainVars, fnVars, edVars, walkVars>>

\* An Enter key that leaves the loop when there are no results.
KeyEnterLeavesOnEmpty(ev) ==
    /\ ui_pc = "read"
    /\ ev = "Enter"
    /\ IF num_results > 0
       THEN /\ launched' = Append(launched, potential_hits[selected_index + 1].path)
            /\ \/ /\ ui_pc' = "disable_raw_mode"
                  /\ UNCHANGED <<selected_index, termVars, ui_ret>>
               \/ /\ ui_pc' = "returned"
                  /\ ui_ret' = "panic"
                  /\ cursor_hidden' \in (IF cursor_hidden THEN BOOLEAN ELSE {FALSE})
                  /\ UNCHANGED <<selected_index, raw_mode, alt_screen,
                                 mouse_capture>>
       ELSE /\ ui_pc' = "disable_raw_mode"
            /\ UNCHANGED ui_ret
            /\ UiKeeps
    /\ UNCHANGED <<mainVars, fnVars, edVars, walkVars>>

\* KeyCode::Enter (lines 132-139): with results, the selected entry's path
\* is handed to open_in_new_terminal; the launch succeeds and the loop is
\* left, or it fails and .expect() panics. Without results nothing happens.
KeyEnter(ev) ==
    /\ ui_pc = "read"
    /\ ev = "Enter"
    /\ IF num_results > 0
       THEN /\ launched' = Append(launched, potential_hits[selected_index + 1].path)
            /\ \/ /\ ui_pc' = "disable_raw_mode"
                  /\ UNCHANGED <<selected_index, termVars, ui_ret>>
               \/ /\ ui_pc' = "returned"
                  /\ ui_ret' = "panic"
                  /\ cursor_hidden' \in (IF cursor_hidden THEN BOOLEAN ELSE {FALSE})
                  /\ UNCHANGED <<selected_index, raw_mode, alt_screen,
                                 mouse_capture>>
       ELSE /\ ui_pc' = "flush_after_read"
            /\ UNCHANGED ui_ret
            /\ UiKeeps
    /\ UNCHANGED <<mainVars, fnVars, edVars, walkVars>>

\* An event that is none of the keys above and ends the loop.
OtherEventLeaves(ev) ==
    /\ ui_pc = "read"
    /\ ev \in {"x", "Resize"}
    /\ ui_pc' = "disable_raw_mode"
    /\ UNCHANGED ui_ret
    /\ UiKeeps
    /\ UNCHANGED <<mainVars, fnVars, edVars, walkVars>>

\* Any other key (`_ => {}`, line 140) and any event that is not a key
\* event (the `if let` of line 119 does not match).
OtherEvent(ev) ==
    /\ ui_pc = "read"
    /\ ev \in {"x", "Resize"}
    /\ ui_pc' = "flush_after_read"
    /\ UNCHANGED ui_ret
    /\ UiKeeps
    /\ UNCHANGED <<mainVars, fnVars, edVars, walkVars>>

\* flush_input_events()? and the sleep that end an iteration (lines 146-147).
FlushAfterRead ==
    /\ ui_pc = "flush_after_read"
    /\ OkOrFail("draw")
    /\ UNCHANGED <<mainVars, fnVars, edVars, walkVars>>

\* disable_raw_mode()? (line 151).
DisableRawMode ==
    /\ ui_pc = "disable_raw_mode"
    /\ \/ /\ raw_mode' = FALSE
          /\ ui_pc' = "leave_screen"
          /\ UNCHANGED <<selected_index, alt_screen, mouse_capture,
                         cursor_hidden, launched, ui_ret>>
       \/ Leave("err")
    /\ UNCHANGED <<mainVars, fnVars, edVars, walkVars>>

\* execute!(terminal.backend_mut(), LeaveAlternateScreen,
\* DisableMouseCapture)? (lines 152-156). On failure any prefix of the two
\* commands may have reached the terminal.
LeaveScreen ==
    /\ ui_pc = "leave_screen"
    /\ \/ /\ alt_screen' = FALSE
          /\ mouse_capture' = FALSE
          /\ ui_pc' = "show_cursor"
          /\ UNCHANGED <<selected_index, raw_mode, cursor_hidden, launched,
                         ui_ret>>
       \/ /\ alt_screen' \in BOOLEAN
          /\ UNCHANGED mouse_capture
          /\ ui_pc' = "returned"
          /\ ui_ret' = "err"
          /\ cursor_hidden' \in (IF cursor_hidden THEN BOOLEAN ELSE {FALSE})
          /\ UNCHANGED <<selected_index, raw_mode, launched>>
    /\ UNCHANGED <<mainVars, fnVars, edVars, walkVars>>

\* terminal.show_cursor()? and Ok(()) (lines 157-159).
ShowCursor ==
    /\ ui_pc = "show_cursor"
    /\ \/ /\ cursor_hidden' = FALSE
          /\ ui_pc' = "returned"
          /\ ui_ret' = "ok"
          /\ UNCHANGED <<selected_index, raw_mode, alt_screen, mouse_capture,
                         launched>>
       \/ Leave("err")
    /\ UNCHANGED <<mainVars, fnVars, edVars, walkVars>>

\* The browser when the events event::read() returns are not told apart by
\* when they arrived: the terminal's input queue is left out, and read
\* returns any event.
GuiNext ==
    \/ EnableRawMode /\ UNCHANGED inVars
    \/ EnterScreen /\ UNCHANGED inVars
    \/ NewTerminal /\ UNCHANGED inVars
    \/ FirstFlush /\ UNCHANGED inVars
    \/ Draw /\ UNCHANGED inVars
    \/ FlushBeforeRead /\ UNCHANGED inVars
    \/ ReadFails /\ UNCHANGED inVars
    \/ \E ev \in Events :
           \/ KeyQuit(ev) /\ UNCHANGED inVars
           \/ KeyDown(ev) /\ UNCHANGED inVars
           \/ KeyUp(ev) /\ UNCHANGED inVars
           \/ KeyEnter(ev) /\ UNCHANGED inVars
           \/ OtherEvent(ev) /\ UNCHANGED inVars
    \/ FlushAfterRead /\ UNCHANGED inVars
    \/ DisableRawMode /\ UNCHANGED inVars
    \/ LeaveScreen /\ UNCHANGED inVars
    \/ ShowCursor /\ UNCHANGED inVars

\* display_results_ui is called with a list of at most MaxHits entries, on
\* a terminal in its original mode.
GuiInit ==
    /\ pc = "gui"
    /\ query = <<>>
    /\ files = <<>>
    /\ scorer = "DamerauLevenshtein"
    /\ k = 0
    /\ ranked_files = <<>>
    /\ threshold = 0
    /\ potential_hits \in HitLists
    /\ main_ret = Running
    /\ fn_name = <<>>
    /\ fn_ret = Running
    /\ ui_pc = "enable_raw_mode"
    /\ selected_index = 0
    /\ raw_mode = FALSE
    /\ alt_screen = FALSE
    /\ mouse_capture = FALSE
    /\ cursor_hidden = FALSE
    /\ launched = <<>>
    /\ ui_ret = "running"
    /\ EdIdle
    /\ WalkIdle
    /\ InIdle

(***************************************************************************)
(* gui.rs: display_results_ui with the terminal's input queue. Events      *)
(* arrive at any moment; flush_input_events drops those that wait, and     *)
(* event::read() takes the oldest.                                         *)
(***************************************************************************)
\* Most events that wait in the queue.
MaxQueue == 2
\* Most iterations of the loop of lines 42-148 that are followed.
MaxIterations == 3

\* The loop of lines 17-19 when every poll succeeds: as long as poll finds
\* an event, read takes it and it is dropped.
RECURSIVE Drain(_)
Drain(q) == IF q # <<>> THEN Drain(Tail(q)) ELSE q

\* A flush that drops nothing.
flush_input_events_keeps(q) == q

\* flush_input_events (lines 16-21) returning Ok(()).
flush_input_events(q) == Drain(q)

\* What is left of q when a poll fails after some events were dropped.
Suffixes(q) == {SubSeq(q, i, Len(q)) : i \in 1..(Len(q) + 1)}

\* The queue after flush_input_events()?, as the step it is part of ended.
Flushes ==
    IF ui_pc' = "returned"
    THEN queue' \in Suffixes(queue)
    ELSE queue' = flush_input_events(queue)

\* An event reaches the terminal while display_results_ui runs; it is
\* stamped with the number of the iteration it arrived in.
Arrive(ev) ==
    /\ ui_pc # "returned"
    /\ Len(queue) < MaxQueue
    /\ queue' = Append(queue, [event |-> ev, iteration |-> iteration])
    /\ UNCHANGED <<mainVars, fnVars, guiVars, edVars, walkVars, iteration,
                   shown>>

\* The frame drawn highlights row selected_index (line 74).
Shows ==
    /\ shown' = IF ui_pc' = "returned" THEN shown ELSE selected_index
    /\ UNCHANGED <<queue, iteration>>

\* The flush of line 115 has returned: events that arrive from now on, in
\* the sleep of line 116 or while read waits, belong to the next read.
NextIteration ==
    /\ iteration < MaxIterations
    /\ iteration' = IF ui_pc' = "returned" THEN iteration ELSE iteration + 1
    /\ UNCHANGED shown

\* event::read() (line 119) returns ev: it waits until an event is there
\* and takes the oldest.
Reads(ev) ==
    /\ queue # <<>>
    /\ ev = Head(queue).event
    /\ queue' = Tail(queue)
    /\ UNCHANGED <<iteration, shown>>

InputNext ==
    \/ \E ev \in Events : Arrive(ev)
    \/ EnableRawMode /\ UNCHANGED inVars
    \/ EnterScreen /\ UNCHANGED inVars
    \/ NewTerminal /\ UNCHANGED inVars
    \/ FirstFlush /\ Flushes /\ UNCHANGED <<iteration, shown>>
    \/ Draw /\ Shows
    \/ FlushBeforeRead /\ Flushes /\ NextIteration
    \/ ReadFails /\ UNCHANGED inVars
    \/ \E ev \in Events :
           \/ Reads(ev) /\ KeyQuit(ev)
           \/ Reads(ev) /\ KeyDown(ev)
           \/ Reads(ev) /\ KeyUp(ev)
           \/ Reads(ev) /\ KeyEnter(ev)
           \/ Reads(ev) /\ OtherEvent(ev)
    \/ FlushAfterRead /\ Flushes /\ UNCHANGED <<iteration, shown>>
    \/ DisableRawMode /\ UNCHANGED inVars
    \/ LeaveScreen /\ UNCHANGED inVars
    \/ ShowCursor /\ UNCHANGED inVars

(***************************************************************************)
(* main.rs, lines 226-253: the numbered list and its prompt when the crate *)
(* is built with the feature open_in_editor, main's own display_results_ui *)
(* otherwise and when there is nothing to list.                            *)
(***************************************************************************)
\* A line of stdout: a message, or entry `number` of the list with its path.
Line(text) == [text |-> text, number |-> 0, path |-> 0]
Counted(text, n) == [text |-> text, number |-> n, path |-> 0]
Listed(n, hit) == [text |-> "entry", number |-> n, path |-> hit.path]

\* Lines 227-228, then line 253: nothing to list, main goes on to its browser.
NoFilesFound ==
    /\ pc = "display"
    /\ open_in_editor
    /\ potential_hits = <<>>
    /\ printed' = Append(printed, Line("No files found."))
    /\ pc' = "ui"
    /\ ui_pc' = "enable_raw_mode"
    /\ UNCHANGED <<query, files, scorer, k, ranked_files, threshold,
                   potential_hits, main_ret, fnVars, selected_index, termVars,
                   launched, ui_ret, open_in_editor, file_number, input,
                   walkVars, inVars>>

\* Lines 230-231: the header, and file_number = 1.
PrintHeader ==
    /\ pc = "display"
    /\ open_in_editor
    /\ potential_hits # <<>>
    /\ printed' = Append(printed, Counted("files found:", Len(potential_hits)))
    /\ file_number' = 1
    /\ k' = 0
    /\ pc' = "list"
    /\ UNCHANGED <<query, files, scorer, ranked_files, threshold,
                   potential_hits, main_ret, fnVars, guiVars, open_in_editor,
                   input, walkVars, inVars>>

\* One iteration of the loop of lines 232-245: the entry is printed under
\* the number file_number, and file_number is incremented.
PrintHit ==
    /\ pc = "list"
    /\ k < Len(potential_hits)
    /\ printed' = Append(printed, Listed(file_number, potential_hits[k + 1]))
    /\ file_number' = file_number + 1
    /\ k' = k + 1
    /\ UNCHANGED <<pc, query, files, scorer, ranked_files, threshold,
                   potential_hits, main_ret, fnVars, guiVars, open_in_editor,
                   input, walkVars, inVars>>

\* Lines 246-250: experimental_open_files is called with file_number as the
\* loop left it.
CallEditor ==
    /\ pc = "list"
    /\ k = Len(potential_hits)
    /\ pc' = "editor"
    /\ UNCHANGED <<query, files, scorer, k, ranked_files, threshold,
                   potential_hits, main_ret, fnVars, guiVars, edVars, walkVars,
                   inVars>>

(***************************************************************************)
(* editor.rs: experimental_open_files.                                     *)
(***************************************************************************)
\* Longest line typed at the prompt, the newline not counted.
MaxInput == 2

\* The chars a typed line is made of: the digits '0'..'5', '+', '-', ' ', 'a'.
Digits == 48..53
InputChars == Digits \cup {43, 45, 32, 97}
Newline == 10
InputLines == UNION {[1..n -> InputChars] : n \in 0..MaxInput}

\* char::is_whitespace on the chars of a line.
IsWhitespace(c) == c \in {32, Newline}

\* str::trim: leading and trailing whitespace removed.
RECURSIVE TrimStart(_)
TrimStart(s) ==
    IF s # <<>> /\ IsWhitespace(Head(s)) THEN TrimStart(Tail(s)) ELSE s
RECURSIVE TrimEnd(_)
TrimEnd(s) ==
    IF s # <<>> /\ IsWhitespace(s[Len(s)])
    THEN TrimEnd(SubSeq(s, 1, Len(s) - 1))
    ELSE s
Trim(s) == TrimEnd(TrimStart(s))

\* The value of a string of decimal digits.
RECURSIVE DigitsValue(_)
DigitsValue(s) ==
    IF s = <<>> THEN 0
    ELSE DigitsValue(SubSeq(s, 1, Len(s) - 1)) * 10 + (s[Len(s)] - 48)

\* str::parse::<usize>: an optional '+', then one decimal digit or more and
\* nothing else (lines of at most MaxInput chars do not overflow).
ParseUsize(s) ==
    LET digits == IF s # <<>> /\ Head(s) = 43 THEN Tail(s) ELSE s
    IN  IF digits # <<>> /\ \A i \in 1..Len(digits) : digits[i] \in Digits
        THEN Ok(DigitsValue(digits))
        ELSE Err("ParseIntError")

Prompt == "Enter file number to open the file in an editor. Press Enter to exit."

\* The test of line 31: index_number > 0 && index_number <= file_number.
Selects(index_number, limit) == index_number > 0 /\ index_number <= limit

\* read_line fails (lines 23-25): .expect panics.
ReadLineFails ==
    /\ pc = "editor"
    /\ printed' = Append(printed, Line(Prompt))
    /\ main_ret' = Err("panic: Failed to read the input.")
    /\ pc' = "returned"
    /\ UNCHANGED <<query, files, scorer, k, ranked_files, threshold,
                   potential_hits, fnVars, guiVars, open_in_editor,
                   file_number, input, walkVars, inVars>>

\* experimental_open_files (lines 16-39) when read_line stores `line` and a
\* newline: a line that is no number returns Ok(()) (line 29); a number that
\* passes the test of line 31 indexes potential_hits (line 32, a panic when
\* out of bounds) and is launched (lines 33-34, a panic when the spawn
\* fails); any other number prints "Invalid file number.".
experimental_open_files(line) ==
    /\ pc = "editor"
    /\ input' = Append(line, Newline)
    /\ LET index_number == ParseUsize(Trim(Append(line, Newline)))
           prompted == Append(printed, Line(Prompt))
       IN  IF ~index_number.ok
           THEN /\ printed' = prompted
                /\ main_ret' = Ok(0)
                /\ UNCHANGED launched
           ELSE IF Selects(index_number.val, file_number)
           THEN IF index_number.val - 1 < Len(potential_hits)
                THEN /\ launched' = Append(launched,
                                       potential_hits[index_number.val].path)
                     /\ printed' = prompted
                     /\ main_ret' \in
                            {Ok(0),
                             Err("panic: Failed to open file in the editor.")}
                ELSE /\ printed' = prompted
                     /\ main_ret' = Err("panic: index out of bounds")
                     /\ UNCHANGED launched
           ELSE /\ printed' = Append(prompted, Line("Invalid file number."))
                /\ main_ret' = Ok(0)
                /\ UNCHANGED launched
    /\ pc' = "returned"
    /\ UNCHANGED <<query, files, scorer, k, ranked_files, threshold,
                   potential_hits, fnVars, ui_pc, selected_index, termVars,
                   ui_ret, open_in_editor, file_number, walkVars, inVars>>

(***************************************************************************)
(* main.rs, lines 73-159: main's own display_results_ui, the one line 253  *)
(* calls. It keeps no selection and knows no key but 'q' and Esc.          *)
(***************************************************************************)
\* Line 253 when the feature is off.
StartMainBrowser ==
    /\ pc = "display"
    /\ ~open_in_editor
    /\ pc' = "ui"
    /\ ui_pc' = "enable_raw_mode"
    /\ UNCHANGED <<query, files, scorer, k, ranked_files, threshold,
                   potential_hits, main_ret, fnVars, selected_index, termVars,
                   launched, ui_ret, edVars, walkVars, inVars>>

\* enable_raw_mode()? (line 76).
MainEnableRawMode ==
    /\ pc = "ui"
    /\ ui_pc = "enable_raw_mode"
    /\ \/ /\ raw_mode' = TRUE
          /\ ui_pc' = "enter_screen"
          /\ UNCHANGED <<selected_index, alt_screen, mouse_capture,
                         cursor_hidden, launched, ui_ret>>
       \/ Leave("err")
    /\ UNCHANGED <<mainVars, fnVars, edVars, walkVars, inVars>>

\* execute!(stdout, EnterAlternateScreen, EnableMouseCapture)? (line 78).
MainEnterScreen ==
    /\ pc = "ui"
    /\ ui_pc = "enter_screen"
    /\ \/ /\ alt_screen' = TRUE
          /\ mouse_capture' = TRUE
          /\ ui_pc' = "new_terminal"
          /\ UNCHANGED <<selected_index, raw_mode, cursor_hidden, launched,
                         ui_ret>>
       \/ /\ alt_screen' \in BOOLEAN
          /\ mouse_capture' = FALSE
          /\ ui_pc' = "returned"
          /\ ui_ret' = "err"
          /\ UNCHANGED <<selected_index, raw_mode, cursor_hidden, launched>>
    /\ UNCHANGED <<mainVars, fnVars, edVars, walkVars, inVars>>

\* Terminal::new(backend)? (line 80).
MainNewTerminal ==
    /\ pc = "ui"
    /\ ui_pc = "new_terminal"
    /\ \/ /\ ui_pc' = "draw"
          /\ UNCHANGED ui_ret
          /\ UiKeeps
       \/ /\ ui_pc' = "returned"
          /\ ui_ret' = "err"
          /\ UiKeeps
    /\ UNCHANGED <<mainVars, fnVars, edVars, walkVars, inVars>>

\* terminal.draw(..)? (lines 83-139): no row is highlighted.
MainDraw ==
    /\ pc = "ui"
    /\ ui_pc = "draw"
    /\ \/ /\ cursor_hidden' = TRUE
          /\ ui_pc' = "read"
          /\ UNCHANGED <<selected_index, raw_mode, alt_screen, mouse_capture,
                         launched, ui_ret>>
       \/ Leave("err")
    /\ UNCHANGED <<mainVars, fnVars, edVars, walkVars, inVars>>

\* event::read()? fails (line 142).
MainReadFails ==
    /\ pc = "ui"
    /\ ui_pc = "read"
    /\ Leave("err")
    /\ UNCHANGED <<mainVars, fnVars, edVars, walkVars, inVars>>

\* 'q' or Esc: break (lines 143-145).
MainKeyQuit(ev) ==
    /\ pc = "ui"
    /\ ui_pc = "read"
    /\ ev \in {"q", "Esc"}
    /\ ui_pc' = "disable_raw_mode"
    /\ UNCHANGED ui_ret
    /\ UiKeeps
    /\ UNCHANGED <<mainVars, fnVars, edVars, walkVars, inVars>>

\* Any other event, Enter and the move keys among them: the `if` of line 143
\* is not taken and the loop goes on.
MainKeyOther(ev) ==
    /\ pc = "ui"
    /\ ui_pc = "read"
    /\ ev \notin {"q", "Esc"}
    /\ ui_pc' = "draw"
    /\ UNCHANGED ui_ret
    /\ UiKeeps
    /\ UNCHANGED <<mainVars, fnVars, edVars, walkVars, inVars>>

\* disable_raw_mode()? (line 150).
MainDisableRawMode ==
    /\ pc = "ui"
    /\ ui_pc = "disable_raw_mode"
    /\ \/ /\ raw_mode' = FALSE
          /\ ui_pc' = "leave_screen"
          /\ UNCHANGED <<selected_index, alt_screen, mouse_capture,
                         cursor_hidden, launched, ui_ret>>
       \/ Leave("err")
    /\ UNCHANGED <<mainVars, fnVars, edVars, walkVars, inVars>>

\* execute!(.., LeaveAlternateScreen, DisableMouseCapture)? (lines 151-155).
MainLeaveScreen ==
    /\ pc = "ui"
    /\ ui_pc = "leave_screen"
    /\ \/ /\ alt_screen' = FALSE
          /\ mouse_capture' = FALSE
          /\ ui_pc' = "show_cursor"
          /\ UNCHANGED <<selected_index, raw_mode, cursor_hidden, launched,
                         ui_ret>>
       \/ /\ alt_screen' \in BOOLEAN
          /\ UNCHANGED mouse_capture
          /\ ui_pc' = "returned"
          /\ ui_ret' = "err"
          /\ cursor_hidden' \in (IF cursor_hidden THEN BOOLEAN ELSE {FALSE})
          /\ UNCHANGED <<selected_index, raw_mode, launched>>
    /\ UNCHANGED <<mainVars, fnVars, edVars, walkVars, inVars>>

\* terminal.show_cursor()? and Ok(()) (lines 156-158).
MainShowCursor ==
    /\ pc = "ui"
    /\ ui_pc = "show_cursor"
    /\ \/ /\ cursor_hidden' = FALSE
          /\ ui_pc' = "returned"
          /\ ui_ret' = "ok"
          /\ UNCHANGED <<selected_index, raw_mode, alt_screen, mouse_capture,
                         launched>>
       \/ Leave("err")
    /\ UNCHANGED <<mainVars, fnVars, edVars, walkVars, inVars>>

TailNext ==
    \/ NoFilesFound \/ PrintHeader \/ PrintHit \/ CallEditor
    \/ ReadLineFails
    \/ \E line \in InputLines : experimental_open_files(line)
    \/ StartMainBrowser
    \/ MainEnableRawMode \/ MainEnterScreen \/ MainNewTerminal
    \/ MainDraw \/ MainReadFails
    \/ \E ev \in Events : MainKeyQuit(ev) \/ MainKeyOther(ev)
    \/ MainDisableRawMode \/ MainLeaveScreen \/ MainShowCursor

\* main has its result list of at most MaxHits entries; the crate was built
\* with or without the feature open_in_editor.
TailInit ==
    /\ pc = "display"
    /\ query = <<>>
    /\ files = <<>>
    /\ scorer = "DamerauLevenshtein"
    /\ k = 0
    /\ ranked_files = <<>>
    /\ threshold = 0
    /\ potential_hits \in HitLists
    /\ main_ret = Running
    /\ fn_name = <<>>
    /\ fn_ret = Running
    /\ GuiIdle
    /\ open_in_editor \in BOOLEAN
    /\ file_number = 0
    /\ input = <<>>
    /\ printed = <<>>
    /\ WalkIdle
    /\ InIdle

(***************************************************************************)
(* search.rs: walk_directory.                                              *)
(***************************************************************************)
Dot == 46
\* "rs"
Rs == <<114, 115>>
\* File names WalkDir may yield: "main", "domain", "main.rs", ".main",
\* "main." and "main.rs.rs".
WalkNames ==
    {Main, Domain, Main \o <<Dot>> \o Rs, <<Dot>> \o Main, Main \o <<Dot>>,
     Main \o <<Dot>> \o Rs \o <<Dot>> \o Rs}

\* The values of the flags --exclude and --focus.
ExtensionSets == {{}, {Rs}, {Main}}

\* The directory listings: at most MaxFiles files.
EntryLists == UNION {[1..n -> WalkNames] : n \in 0..MaxFiles}

\* The places of '.' in s.
DotsIn(s) == {i \in 1..Len(s) : s[i] = Dot}

\* file_name.split('.').collect() (line 35): the pieces between the dots,
\* one more than there are dots.
RECURSIVE Split(_)
Split(s) ==
    IF DotsIn(s) = {} THEN <<s>>
    ELSE LET i == CHOOSE d \in DotsIn(s) : \A e \in DotsIn(s) : d <= e
         IN  <<SubSeq(s, 1, i - 1)>> \o Split(SubSeq(s, i + 1, Len(s)))

\* chunks.join(".")
RECURSIVE Join(_)
Join(chunks) ==
    IF chunks = <<>> THEN <<>>
    ELSE IF Len(chunks) = 1 THEN chunks[1]
    ELSE chunks[1] \o <<Dot>> \o Join(Tail(chunks))

\* chunks[..chunks.len() - 1].join(".") (line 36).
RawFileName(chunks) == Join(SubSeq(chunks, 1, Len(chunks) - 1))

\* chunks.last() (lines 38-40 and 45-47); chunks is never empty.
LastChunk(chunks) == chunks[Len(chunks)]

\* One iteration of the loop of lines 28-52 on the next file: the file is
\* pushed unless its last chunk is excluded or, when a focus set is given,
\* is not in it. The full path is modelled by the file's place in the walk.
WalkEntry ==
    /\ pc = "walk"
    /\ k < Len(entries)
    /\ LET file_name == entries[k + 1]
           chunks == Split(file_name)
           raw_file_name == RawFileName(chunks)
           pushed == IF focus_extension_set = {}
                     THEN LastChunk(chunks) \notin exclude_extension_set
                     ELSE LastChunk(chunks) \in focus_extension_set
       IN  files' = IF pushed
                    THEN Append(files, [name |-> raw_file_name, path |-> k + 1])
                    ELSE files
    /\ k' = k + 1
    /\ UNCHANGED <<pc, query, scorer, ranked_files, threshold, potential_hits,
                   main_ret, fnVars, guiVars, edVars, walkVars, inVars>>

\* return files (line 54).
WalkReturns ==
    /\ pc = "walk"
    /\ k = Len(entries)
    /\ pc' = "walked"
    /\ UNCHANGED <<query, files, scorer, k, ranked_files, threshold,
                   potential_hits, main_ret, fnVars, guiVars, edVars, walkVars,
                   inVars>>

WalkNext == WalkEntry \/ WalkReturns

\* walk_directory is called on a directory tree with at most MaxFiles files.
WalkInit ==
    /\ pc = "walk"
    /\ query = <<>>
    /\ files = <<>>
    /\ scorer = "DamerauLevenshtein"
    /\ k = 0
    /\ ranked_files = <<>>
    /\ threshold = 0
    /\ potential_hits = <<>>
    /\ main_ret = Running
    /\ fn_name = <<>>
    /\ fn_ret = Running
    /\ GuiIdle
    /\ EdIdle
    /\ entries \in EntryLists
    /\ exclude_extension_set \in ExtensionSets
    /\ focus_extension_set \in ExtensionSets
    /\ InIdle

(***************************************************************************)
(* Specifications.                                                         *)
(***************************************************************************)
Init == MainInit
Next == MainNext
\* main's fuzzy branch as the program runs it.
Spec == Init /\ [][Next]_vars
\* main's fuzzy branch for every algorithm tag.
SpecScorer == ScorerInit /\ [][MainNext]_vars
\* The scorer alone.
SpecFn == FnInit /\ [][CallScore]_vars
\* The navigable browser of gui.rs.
SpecGui == GuiInit /\ [][GuiNext]_vars
\* The navigable browser of gui.rs and the terminal's input queue.
SpecGuiInput == GuiInit /\ [][InputNext]_vars
\* walk_directory.
SpecWalk == WalkInit /\ [][WalkNext]_vars
\* main from line 226 on.
SpecTail == TailInit /\ [][TailNext]_vars


(***************************************************************************)
(* The properties.                                                         *)
(***************************************************************************)
\* The recurrence of the specification over the first i chars of a and the
\* first j chars of b: dp[i][0] = i, dp[0][j] = j, the diagonal on a match,
\* 1 + the least of the three neighbours on a mismatch, and dp[i-2][j-2] + 1
\* when the last two chars of each are a transposed pair.
RECURSIVE RecurrenceDp(_, _, _, _)
RecurrenceDp(a, b, i, j) ==
    IF i = 0 THEN j
    ELSE IF j = 0 THEN i
    ELSE LET first == IF a[i] = b[j]
                      THEN RecurrenceDp(a, b, i - 1, j - 1)
                      ELSE 1 + Min(RecurrenceDp(a, b, i - 1, j),
                                   Min(RecurrenceDp(a, b, i, j - 1),
                                       RecurrenceDp(a, b, i - 1, j - 1)))
         IN  IF i > 1 /\ j > 1 /\ a[i] = b[j - 1] /\ a[i - 1] = b[j]
             THEN Min(first, RecurrenceDp(a, b, i - 2, j - 2) + 1)
             ELSE first

\* dp[len(a)][len(b)], len counting chars.
RecurrenceDistance(a, b) == RecurrenceDp(a, b, Len(a), Len(b))

\* A string whose chars are all one byte long.
OneByteChars(s) == \A i \in 1..Len(s) : Utf8Len(s[i]) = 1

\* The call with DamerauLevenshtein has returned.
Scored == pc = "fn_done" /\ scorer = "DamerauLevenshtein"

\* C2: the distance returned for (query, name) is dp[len(query)][len(name)]
\* of the stated recurrence, for every pair of strings; it is 2 for
\* ("irks", "risk") and 3 for ("geeks", "forgeeks").
C2_DistanceIsRecurrence ==
    Scored =>
        /\ fn_ret = Ok(RecurrenceDistance(query, fn_name))
        /\ (query = Irks /\ fn_name = Risk => fn_ret = Ok(2))
        /\ (query = Geeks /\ fn_name = Forgeeks => fn_ret = Ok(3))

\* C2 on the strings whose chars are all one byte long (there String::len()
\* is the number of chars): the code agrees with the recurrence.
DistanceIsRecurrenceOnOneByteChars ==
    Scored /\ OneByteChars(query) /\ OneByteChars(fn_name) =>
        /\ fn_ret = Ok(RecurrenceDistance(query, fn_name))
        /\ (query = Irks /\ fn_name = Risk => fn_ret = Ok(2))
        /\ (query = Geeks /\ fn_name = Forgeeks => fn_ret = Ok(3))

\* s with its p-th char removed.
Without(s, p) == SubSeq(s, 1, p - 1) \o SubSeq(s, p + 1, Len(s))

\* C3: the distance counts chars, not bytes: against the empty string it is
\* the number of chars of the other string, and two strings that differ by
\* one inserted or deleted char (of any width) are at distance 1.
C3_DistanceCountsChars ==
    Scored =>
        /\ (fn_name = <<>> => fn_ret = Ok(Len(query)))
        /\ (query = <<>> => fn_ret = Ok(Len(fn_name)))
        /\ ((\E p \in 1..Len(query) : fn_name = Without(query, p))
                => fn_ret = Ok(1))
        /\ ((\E p \in 1..Len(fn_name) : query = Without(fn_name, p))
                => fn_ret = Ok(1))

\* C3 on the strings whose chars are all one byte long.
DistanceCountsCharsOnOneByteChars ==
    OneByteChars(query) /\ OneByteChars(fn_name) => C3_DistanceCountsChars

\* ceil(len * pct / 100), exactly.
CeilPercent(len, pct) == (len * pct + 99) \div 100

\* The threshold of the specification for a query of len chars.
AdaptiveThreshold(len) ==
    IF len <= 4 THEN CeilPercent(len, 25)
    ELSE IF len <= 10 THEN CeilPercent(len, 35)
    ELSE CeilPercent(len, 45)

\* The threshold has been computed (line 217 is passed).
ThresholdSet == pc \in {"filter", "display", "ui"}

\* C4: the threshold the fuzzy branch uses is the adaptive threshold of the
\* query's number of chars (4 -> 1, 7 -> 3, 12 -> 6), for every query.
C4_ThresholdOfCharCount ==
    ThresholdSet =>
        /\ threshold = AdaptiveThreshold(Len(query))
        /\ (Len(query) = 4 => threshold = 1)
        /\ (Len(query) = 7 => threshold = 3)
        /\ (Len(query) = 12 => threshold = 6)

\* C4 on the queries whose chars are all one byte long.
ThresholdOfCharCountOnOneByteChars ==
    OneByteChars(query) => C4_ThresholdOfCharCount

\* v is ascending by score.
SortedByScore(v) == \A i \in 1..(Len(v) - 1) : v[i].score <= v[i + 1].score

\* C5: the result list of the fuzzy branch is ascending by score and every
\* score in it is at most the threshold.
C5_SortedUnderThreshold ==
    ThresholdSet =>
        /\ SortedByScore(potential_hits)
        /\ \A i \in 1..Len(potential_hits) :
               potential_hits[i].score <= threshold

\* A result list of two different scores, with a file left out, from an
\* enumeration that was not in score order.
C5_Witness ==
    /\ pc = "ui"
    /\ Len(potential_hits) >= 2
    /\ potential_hits[1].score < potential_hits[Len(potential_hits)].score
    /\ Len(potential_hits) < Len(files)
    /\ potential_hits[1].path > potential_hits[2].path

\* The enumerated files, each with its own score, in enumeration order.
ScoredFiles ==
    [i \in 1..Len(files) |->
        [score |-> damerau_levenshtein_distance(query, files[i].name),
         name |-> files[i].name, path |-> files[i].path]]

\* The places in v of the entries whose score is at most the threshold.
QualifyingIn(v) == {i \in 1..Len(v) : v[i].score <= threshold}

\* C6: when the walk is over the result list holds exactly the enumerated
\* files whose score is at most the threshold, each once, each with its own
\* name, path and score; "mian" against main, maintenance, domain keeps
\* only main, at distance 1.
C6_WalkIsFilter ==
    pc \in {"display", "ui"} =>
        LET all == ScoredFiles
            qualifying == QualifyingIn(all)
        IN  /\ Len(potential_hits) = Cardinality(qualifying)
            /\ \A i \in qualifying :
                   \E j \in 1..Len(potential_hits) : potential_hits[j] = all[i]
            /\ \A j \in 1..Len(potential_hits) :
                   \E i \in qualifying : potential_hits[j] = all[i]
            /\ (/\ query = Mian
                /\ Len(files) = 3
                /\ files[1].name = Main
                /\ files[2].name = Maintenance
                /\ files[3].name = Domain
                => potential_hits = <<[score |-> 1, name |-> Main, path |-> 1]>>)

\* The walk ended by the break, and a file enumerated after a file over the
\* threshold was kept.
C6_Witness ==
    /\ pc = "ui"
    /\ k < Len(ranked_files)
    /\ potential_hits # <<>>
    /\ \E i \in 1..Len(ranked_files) : \E j \in 1..Len(potential_hits) :
           /\ ranked_files[i].score > threshold
           /\ ranked_files[i].path < potential_hits[j].path

\* C7: two entries of the result list with equal score are in the order of
\* the enumeration.
C7_StableRanking ==
    \A i, j \in 1..Len(potential_hits) :
        (i < j /\ potential_hits[i].score = potential_hits[j].score)
            => potential_hits[i].path < potential_hits[j].path

\* Two enumerated files tie (the same name in two directories), and a
\* better file enumerated after both is ranked before them.
C7_Witness ==
    /\ pc = "ui"
    /\ \E i, j \in 1..Len(potential_hits) :
           /\ i < j
           /\ potential_hits[i].score = potential_hits[j].score
           /\ potential_hits[1].score < potential_hits[i].score
           /\ potential_hits[1].path > potential_hits[j].path

\* C8: the distance of a string to itself is 0.
C8_DistanceToSelf ==
    Scored /\ query = fn_name => fn_ret = Ok(0)

\* A string of MaxLen chars, one of them two bytes long, scored against
\* itself.
C8_Witness ==
    /\ Scored
    /\ query = fn_name
    /\ Len(query) = MaxLen
    /\ ~OneByteChars(query)
    /\ fn_ret = Ok(0)

\* C9: the distance is symmetric.
C9_Symmetric ==
    Scored => fn_ret = Ok(damerau_levenshtein_distance(fn_name, query))

\* Two strings of different lengths, one with a two-byte char, at a
\* distance of 2 or more.
C9_Witness ==
    /\ Scored
    /\ Len(query) < Len(fn_name)
    /\ ~OneByteChars(fn_name)
    /\ fn_ret.ok
    /\ fn_ret.val >= 2

\* C10: score_fuzzy_search fails for every variant but DamerauLevenshtein
\* and returns a distance for that one; when the scoring of a candidate
\* fails, main returns that error at once: no candidate is skipped, no
\* result list is built and no browser is started.
C10_ScoringFailureAborts ==
    /\ \A a \in Algorithms \ {"DamerauLevenshtein"} : \A i \in 1..Len(files) :
           score_fuzzy_search(query, files[i].name, a) = Err(a)
    /\ scorer = "DamerauLevenshtein" =>
           /\ pc # "returned"
           /\ pc = "score" => Len(ranked_files) = k
           /\ (pc = "score" /\ k < Len(files)) =>
                  LET r == score_fuzzy_search(query, files[k + 1].name, scorer)
                  IN  r.ok /\ r.val \in Nat /\ r.err = ""
    /\ (scorer # "DamerauLevenshtein" /\ files # <<>>) =>
           \/ pc = "score" /\ k = 0 /\ main_ret = Running
           \/ pc = "returned" /\ k = 0 /\ main_ret = Err(scorer)
    /\ pc = "returned" =>
           /\ scorer # "DamerauLevenshtein"
           /\ main_ret = Err(scorer)
           /\ ranked_files = <<>>
           /\ potential_hits = <<>>
    /\ pc # "returned" => main_ret = Running

\* main has returned the error of an unimplemented variant, with several
\* files enumerated.
C10_Witness ==
    /\ pc = "returned"
    /\ scorer = "BITAP"
    /\ Len(files) >= 2
    /\ main_ret = Err("BITAP")


\* The terminal is in its original mode: cooked, normal screen, no mouse
\* capture, cursor visible.
TerminalRestored ==
    ~raw_mode /\ ~alt_screen /\ ~mouse_capture /\ ~cursor_hidden

\* C1: whenever display_results_ui has returned or has propagated an error
\* or a panic, the terminal is restored.
C1_TerminalRestoredOnExit == ui_pc = "returned" => TerminalRestored

\* C1 on the one path where every call succeeds: Ok(()) is returned with
\* the terminal restored.
TerminalRestoredOnOk == ui_ret = "ok" => TerminalRestored


(***************************************************************************)
(* The navigable browser: selection, confirm and quit.                     *)
(***************************************************************************)
Max(x, y) == IF x >= y THEN x ELSE y

\* The positions of the loop of lines 42-148: the session is active.
LoopPcs == {"draw", "flush_before_read", "read", "flush_after_read"}

MoveDownKeys == {"Down", "j"}
MoveUpKeys == {"Up", "k"}
QuitKeys == {"q", "Esc"}

\* C11: on a non-empty result list selected_index is a valid index,
\* 0 <= selected_index < len(results), in every reachable state.
C11_SelectedIndexInRange ==
    num_results > 0 => (0 <= selected_index /\ selected_index < num_results)

\* The last of several entries is selected, after as many down keys.
C11_Witness ==
    /\ num_results >= 2
    /\ selected_index = num_results - 1
    /\ ui_pc = "flush_after_read"

\* C12: on a list with entries a down/'j' key sets selected_index to
\* min(selected_index + 1, len - 1) and an up/'k' key sets it to
\* max(selected_index - 1, 0).
C12_MovesClamp ==
    [][num_results > 0 =>
         /\ \A ev \in MoveDownKeys :
                KeyDown(ev) =>
                    selected_index' = Min(selected_index + 1, num_results - 1)
         /\ \A ev \in MoveUpKeys :
                KeyUp(ev) =>
                    selected_index' = Max(selected_index - 1, 0)]_vars

\* With 3 results the selection has reached index 2 and a move was the
\* last key dispatched.
C12_Witness ==
    /\ num_results = 3
    /\ selected_index = 2
    /\ ui_pc = "flush_after_read"
    /\ launched = <<>>

\* C13: an Enter key dispatched on a non-empty list ends the session, the
\* path handed to the launcher is the one of results[selected_index], and
\* the launcher is invoked at most once per session.
C13_ConfirmOpensSelected ==
    /\ [](Len(launched) <= 1)
    /\ [][(num_results > 0 /\ KeyEnter("Enter")) =>
            /\ ui_pc' \notin LoopPcs
            /\ launched' = <<potential_hits[selected_index + 1].path>>]_vars

\* An entry other than the first was selected by moves and then opened.
C13_Witness ==
    /\ Len(launched) = 1
    /\ selected_index > 0
    /\ launched[1] = potential_hits[selected_index + 1].path
    /\ ui_pc = "disable_raw_mode"

\* C14: a 'q' or Esc key leaves the loop whatever the selection and the list
\* are, and a session that is left by quit hands no path to the launcher:
\* none before the key (the session was still active), none after it.
C14_QuitEndsWithoutLaunch ==
    /\ [][\A ev \in QuitKeys :
            KeyQuit(ev) => (launched = <<>> /\ ui_pc' \notin LoopPcs)]_vars
    /\ [][(ui_pc \notin LoopPcs /\ launched = <<>>) => launched' = <<>>]_vars
    /\ [](ui_pc = "read" => \A ev \in QuitKeys : ENABLED KeyQuit(ev))

\* A session left by quit, with an entry other than the first selected, has
\* returned Ok(()) and launched nothing.
C14_Witness ==
    /\ ui_ret = "ok"
    /\ launched = <<>>
    /\ selected_index > 0

\* C15: with an empty list selected_index stays 0 and nothing is launched;
\* Enter, the move keys and every key other than quit leave the session
\* active.
C15_EmptyListKeysAreNoOps ==
    /\ [](num_results = 0 => (selected_index = 0 /\ launched = <<>>))
    /\ [][num_results = 0 =>
            \A ev \in Events \ QuitKeys :
                (KeyDown(ev) \/ KeyUp(ev) \/ KeyEnter(ev) \/ OtherEvent(ev)) =>
                    /\ ui_pc' \in LoopPcs
                    /\ UNCHANGED <<selected_index, launched>>]_vars

\* A key was dispatched on the empty list and the loop goes on.
C15_Witness ==
    /\ num_results = 0
    /\ ui_pc = "flush_after_read"
    /\ selected_index = 0

\* C16: the launcher is invoked only once the terminal has been restored,
\* and when the launch fails the terminal is in its original mode at exit.
C16_LaunchOnRestoredTerminal ==
    /\ launched # <<>> => TerminalRestored
    /\ ui_ret = "panic" => TerminalRestored


(***************************************************************************)
(* The fuzzy branch on an empty query and on an empty candidate list.      *)
(***************************************************************************)
\* The places in the enumeration of the files whose name is the empty string.
EmptyNamed == {i \in 1..Len(files) : files[i].name = <<>>}

\* C19: for a zero-length query the threshold is 0 and the result list holds
\* exactly the candidates whose score is 0, which are those whose name is
\* the empty string; for an empty candidate list the result list is empty
\* and main does not return an error, for any query.
C19_EmptyQueryAndEmptyList ==
    /\ files = <<>> => (main_ret = Running /\ pc # "returned")
    /\ pc \in {"display", "ui"} =>
        /\ query = <<>> =>
             /\ threshold = 0
             /\ Len(potential_hits) = Cardinality(EmptyNamed)
             /\ \A j \in 1..Len(potential_hits) :
                    /\ potential_hits[j].score = 0
                    /\ potential_hits[j].name = <<>>
                    /\ \E i \in EmptyNamed : potential_hits[j].path = files[i].path
             /\ \A i \in EmptyNamed :
                    \E j \in 1..Len(potential_hits) :
                        potential_hits[j].path = files[i].path
             /\ \A i \in 1..Len(files) :
                    (damerau_levenshtein_distance(query, files[i].name) = 0)
                        <=> i \in EmptyNamed
        /\ files = <<>> => potential_hits = <<>>

\* The empty query kept the one file with an empty name out of three.
C19_Witness ==
    /\ pc = "ui"
    /\ query = <<>>
    /\ Len(files) = 3
    /\ Len(potential_hits) = 1
    /\ files[2].name = <<>>


(***************************************************************************)
(* The numbered list and its prompt.                                       *)
(***************************************************************************)
\* What the line read parses to.
Typed == ParseUsize(Trim(input))

\* experimental_open_files has read a line and main has ended.
Answered == pc = "returned" /\ input # <<>>

\* Some line was printed after the prompt.
Reported == printed[Len(printed)].text # Prompt

\* C17: with N results listed, a line that is no number and a number outside
\* 1..N are reported by a message and are not fatal: nothing is opened, no
\* entry is indexed out of bounds and main returns Ok(()).
C17_BadSelectionIsReported ==
    (Answered /\ (~Typed.ok \/ Typed.val \notin 1..Len(potential_hits))) =>
        /\ main_ret = Ok(0)
        /\ launched = <<>>
        /\ Reported

\* C17 for the numbers the test of line 31 rejects, 0 and those above
\* file_number: "Invalid file number." is printed and main returns Ok(()).
RejectedNumberIsReported ==
    (Answered /\ Typed.ok /\ ~Selects(Typed.val, file_number)) =>
        /\ main_ret = Ok(0)
        /\ launched = <<>>
        /\ printed[Len(printed)] = Line("Invalid file number.")

(***************************************************************************)
(* The session main starts.                                                *)
(***************************************************************************)
\* C20: the session main starts on its result list handles a dispatched key
\* as the navigable browser does: Enter on a list with entries ends it with
\* the selected entry's path launched, the move keys move the selection
\* with clamping, and quit ends it with nothing launched.
C20_MainSessionFollowsBrowser ==
    [][(pc = "ui" /\ ui_pc = "read" /\ num_results > 0) =>
         /\ MainKeyOther("Enter") =>
                /\ ui_pc' \notin LoopPcs
                /\ launched' = <<potential_hits[selected_index + 1].path>>
         /\ \A ev \in MoveDownKeys :
                MainKeyOther(ev) =>
                    selected_index' = Min(selected_index + 1, num_results - 1)
         /\ \A ev \in MoveUpKeys :
                MainKeyOther(ev) =>
                    selected_index' = Max(selected_index - 1, 0)
         /\ \A ev \in QuitKeys :
                MainKeyQuit(ev) =>
                    (ui_pc' \notin LoopPcs /\ launched' = <<>>)]_vars

\* C20 for the quit keys alone: main's session ends with nothing launched.
MainSessionQuits ==
    [][\A ev \in QuitKeys :
           MainKeyQuit(ev) => (ui_pc' \notin LoopPcs /\ launched' = <<>>)]_vars


(***************************************************************************)
(* The names walk_directory yields.                                        *)
(***************************************************************************)
\* A file name without its extension: the name up to its last '.', and the
\* whole name when it has no '.'.
WithoutExtension(file_name) ==
    IF DotsIn(file_name) = {} THEN file_name
    ELSE LET last == CHOOSE d \in DotsIn(file_name) :
                         \A e \in DotsIn(file_name) : e <= d
         IN  SubSeq(file_name, 1, last - 1)

\* C18: every file walk_directory yields has as name its file name without
\* the extension; a file name without '.' is yielded whole.
C18_NameWithoutExtension ==
    \A i \in 1..Len(files) :
        files[i].name = WithoutExtension(entries[files[i].path])

\* C18 for the file names that have a '.': the name yielded is the file
\* name up to its last '.'.
NameWithDotLosesExtension ==
    \A i \in 1..Len(files) :
        DotsIn(entries[files[i].path]) # {} =>
            files[i].name = WithoutExtension(entries[files[i].path])


(***************************************************************************)
(* The browser and the terminal's input queue.                             *)
(***************************************************************************)
Abs(x) == IF x >= 0 THEN x ELSE 0 - x

\* The step dispatches an event: read has returned one (it did not fail).
Dispatches == ui_pc = "read" /\ ui_pc' # "read" /\ ui_ret' # "err"

\* C21: the event an iteration dispatches is one that arrived after the
\* flush that followed the frame (its stamp is the running iteration's), so
\* an event that was queued before that flush is never dispatched; the
\* selection and the launches change only by a dispatch, a dispatch takes
\* exactly one event and moves the selection by at most 1, and between two
\* frames the selection differs by at most 1.
C21_StaleInputIsNeverDispatched ==
    /\ [][Dispatches =>
            /\ queue # <<>>
            /\ Head(queue).iteration = iteration
            /\ queue' = Tail(queue)
            /\ Abs(selected_index' - selected_index) <= 1]_vars
    /\ [][(selected_index' # selected_index \/ launched' # launched) =>
            Dispatches]_vars
    /\ [][(ui_pc = "read" /\ ui_pc' = "read") =>
            UNCHANGED <<selected_index, launched, iteration>>]_vars
    /\ [](shown # NoFrame => Abs(selected_index - shown) <= 1)
    /\ [](ui_pc = "read" =>
            \A i \in 1..Len(queue) : queue[i].iteration = iteration)

\* The second iteration has dispatched a down key that moved the selection
\* off the row the frame shows, and another event waits for the next flush.
C21_Witness ==
    /\ ui_pc = "flush_after_read"
    /\ iteration = 2
    /\ shown = 0
    /\ selected_index = 1
    /\ queue # <<>>


(***************************************************************************)
(* What ends the browser's session and what a key leaves alone.            *)
(***************************************************************************)
\* The events that are neither quit, nor Enter, nor a move key.
OtherEvents == Events \ (QuitKeys \cup MoveDownKeys \cup MoveUpKeys \cup {"Enter"})

\* C22: the loop is left only by a dispatched quit key, by a dispatched
\* Enter on a list with entries, or by an I/O error; every other key and
\* every event that is no key leaves the session active with selected_index
\* and the result list as they are; a move key leaves the session active and
\* the result list as it is, and so does Enter on the empty list.
C22_OnlyQuitConfirmOrErrorEnd ==
    /\ [][(ui_pc \in LoopPcs /\ ui_pc' \notin LoopPcs) =>
            \/ \E ev \in QuitKeys : KeyQuit(ev)
            \/ num_results > 0 /\ KeyEnter("Enter")
            \/ ui_ret' = "err"]_vars
    /\ [][\A ev \in OtherEvents :
            OtherEvent(ev) =>
                /\ ui_pc' \in LoopPcs
                /\ UNCHANGED <<selected_index, potential_hits, launched>>]_vars
    /\ [][\A ev \in MoveDownKeys \cup MoveUpKeys :
            (KeyDown(ev) \/ KeyUp(ev)) =>
                /\ ui_pc' \in LoopPcs
                /\ UNCHANGED <<potential_hits, launched>>]_vars
    /\ [][(ui_pc = "read" /\ ui_pc' \in LoopPcs) =>
            \E ev \in Events \ QuitKeys :
                KeyDown(ev) \/ KeyUp(ev) \/ KeyEnter(ev) \/ OtherEvent(ev)]_vars
    /\ [][(ui_pc \in LoopPcs) => potential_hits' = potential_hits]_vars

\* After moves to the second of two entries a key was dispatched that left
\* the session active, with nothing launched.
C22_Witness ==
    /\ ui_pc = "flush_after_read"
    /\ num_results = 2
    /\ selected_index = 1
    /\ launched = <<>>
    /\ ui_ret = "running"

=============================================================================
